---- MODULE Spec2Model ----
(***************************************************************************)
(* State-machine model of serve.py: the static file server that serves the *)
(* built app from the dist folder on port 8000.                            *)
(*                                                                         *)
(* The main program is one sequential process; pc is its position.  The    *)
(* environment (the dist entry of the invocation directory, the state of   *)
(* port 8000, the outcome of the UDP probe, clients, the interrupt signal) *)
(* is nondeterministic.  The request handler is the standard-library       *)
(* SimpleHTTPRequestHandler with the two overrides of serve.py.            *)
(***************************************************************************)
EXTENDS Integers, Sequences, FiniteSets, TLC

VARIABLES
    pc,         \* position of the main program
    distState,  \* the entry 'dist' of the invocation directory
    portFree,   \* whether port 8000 can be bound
    cwd,        \* process working directory
    chdirs,     \* number of os.chdir calls that succeeded
    stdout,     \* lifecycle lines printed on standard output, in order
    ip,         \* value returned by get_ip ("unset" before it returns)
    probeSent,  \* datagrams sent on the probe socket
    probeFailed,\* whether a step of the probe raised OSError
    listeners,  \* listening sockets this process holds on PORT
    binds,      \* number of times the process bound a listener to PORT
    exitCode,   \* exit status of the process, -1 while it runs
    ints,       \* positions at which an interrupt signal was delivered
    backlog,    \* connections completed by the kernel, not yet accepted
    conns,      \* connections made by clients so far
    cur,        \* the connection being handled, or NoConn
    req,        \* the request read from cur, or NoReq
    h,          \* handler state of the request in progress (or the last one)
    failed      \* connections handled so far whose request failed

vars == <<pc, distState, portFree, cwd, chdirs, stdout, ip, probeSent, probeFailed,
          listeners, binds, exitCode, ints, backlog, conns, cur, req, h,
          failed>>

(***************************************************************************)
(* Bounds of the model                                                     *)
(***************************************************************************)
MaxInterrupts == 2
MaxConns == 3

(***************************************************************************)
(* Program constants                                                       *)
(***************************************************************************)
PORT == 8000

Clients == {"A", "B"}

LanIp == "192.0.2.2"

DistStates == {"absent", "file", "dir"}

\* positions inside the try block of get_ip (lines 14-17)
ProbePcs == {"probe_socket", "probe_connect", "probe_getsockname", "probe_close"}

\* positions inside httpd.serve_forever(), i.e. inside the try of line 54
ServePcs == {"serving", "reading", "dispatch", "finish"}

NoConn == [client |-> "none", silent |-> FALSE]

(***************************************************************************)
(* Requests: what a client puts on the wire                                *)
(***************************************************************************)
V09 == [prefix |-> "HTTP/", major |-> 0, minor |-> 9]
V10 == [prefix |-> "HTTP/", major |-> 1, minor |-> 0]
V11 == [prefix |-> "HTTP/", major |-> 1, minor |-> 1]
V20 == [prefix |-> "HTTP/", major |-> 2, minor |-> 0]
VFoo == [prefix |-> "FOO/", major |-> 1, minor |-> -1]
\* no third word on the request line
NoVersion == [prefix |-> "", major |-> -1, minor |-> -1]

Versions == {NoVersion, V10, V11, V20, VFoo}

Methods == {"GET", "HEAD", "POST"}

Target(segs, slash) == [segs |-> segs, slash |-> slash]

CommonTargets ==
    { Target(<<"index.html">>, FALSE), Target(<<"nope">>, FALSE),
      Target(<<"sub">>, FALSE), Target(<<"secret">>, FALSE) }

RareTargets ==
    { Target(<<>>, TRUE), Target(<<"index.html">>, TRUE),
      Target(<<"sub">>, TRUE), Target(<<"locked">>, TRUE),
      Target(<<"..", "outside">>, FALSE),
      Target(<<"sub", "..", "..", "index.html">>, FALSE) }

Line(method, target, version) ==
    [method |-> method, target |-> target, version |-> version]

NoLine == Line("", Target(<<>>, FALSE), NoVersion)

Request(wire, line, ims, abort) ==
    [wire |-> wire, line |-> line, ims |-> ims, abort |-> abort]

NoReq == Request("none", NoLine, FALSE, FALSE)

\* wire: "line" a complete request line and headers; "blank" an empty line;
\* "eof" the client closes without sending; "reset" the read fails with
\* ConnectionResetError; "toolong" a request line longer than 65536 bytes.
\* ims: an If-Modified-Since header not older than the file (no If-None-Match).
\* abort: the client closes while the file body is being copied.
Requests ==
    { Request("line", Line(m, t, v), FALSE, FALSE) :
          m \in Methods, t \in CommonTargets, v \in Versions }
    \cup { Request("line", Line("GET", t, v), FALSE, FALSE) :
          t \in RareTargets, v \in {NoVersion, V11} }
    \cup { Request("line", Line(m, Target(<<"index.html">>, FALSE), V11), TRUE, FALSE) :
          m \in {"GET", "HEAD"} }
    \cup { Request("line", Line("GET", Target(<<"index.html">>, FALSE), V10), FALSE, TRUE) }
    \cup { Request(w, NoLine, FALSE, FALSE) : w \in {"blank", "eof", "reset", "toolong"} }

(***************************************************************************)
(* The files below the serving root                                        *)
(***************************************************************************)
\* "file" a readable file, "noperm" a file open() refuses, "dir" a directory,
\* "nolist" a directory os.listdir() refuses, "absent" nothing.
DistTree(segs) ==
    CASE segs = <<>> -> "dir"
      [] segs = <<"index.html">> -> "file"
      [] segs = <<"secret">> -> "noperm"
      [] segs = <<"sub">> -> "dir"
      [] segs = <<"sub", "a.txt">> -> "file"
      [] segs = <<"locked">> -> "nolist"
      [] OTHER -> "absent"

\* what a path below `directory` names; the invocation directory holds dist
Lookup(directory, segs) ==
    IF directory = "dist" THEN DistTree(segs)
    ELSE IF segs = <<>> THEN "dir"
    ELSE IF Len(segs) >= 1 /\ segs[1] = "dist" THEN DistTree(Tail(segs))
    ELSE "absent"

(***************************************************************************)
(* The request handler: MyHTTPRequestHandler over SimpleHTTPRequestHandler *)
(***************************************************************************)
NoCache == "no-store, no-cache, must-revalidate"

Item(kind, name, value, code) ==
    [kind |-> kind, name |-> name, value |-> value, code |-> code]

StatusLine(code) == Item("status", "", "", code)
Header(name, value) == Item("header", name, value, 0)
BlankLine == Item("blank", "", "", 0)
Body(what) == Item("body", what, "", 0)

\* A handler object.  cls is its class (method resolution), directory the
\* root translate_path resolves against, version request_version, command and
\* reqline as parse_request leaves them, hbuf the _headers_buffer, wire what
\* was written to the client, logs the lines log_message printed, raised
\* whether handling ended in an exception, status the code of the
\* response (0 before any).
NewHandler(cls, directory) ==
    [cls |-> cls, directory |-> directory, version |-> NoVersion,
     command |-> "", reqline |-> NoLine, hbuf |-> <<>>, wire |-> <<>>,
     status |-> 0, logs |-> <<>>, raised |-> FALSE]

NoHandler == NewHandler("none", "none")

\* log_message overridden to print nothing
log_message_Silent(hd, fmt, line, code) == hd

\* MyHTTPRequestHandler.log_message: one line on stdout, "[<date time>] <text>"
log_message(hd, fmt, line, code) ==
    [hd EXCEPT !.logs = Append(@, [stamped |-> TRUE, fmt |-> fmt,
                                   reqline |-> line, code |-> code])]

\* BaseHTTPRequestHandler.log_message writes the line to stderr: nothing on stdout
base_log_message(hd, fmt, line, code) == hd

LogMessage(hd, fmt, line, code) ==
    IF hd.cls = "MyHTTPRequestHandler" THEN log_message(hd, fmt, line, code)
    ELSE base_log_message(hd, fmt, line, code)

\* '"%s" %s %s' % (requestline, code, size)
log_request(hd, code) == LogMessage(hd, "request", hd.reqline, code)

\* "code %d, message %s" % (code, message)
log_error(hd, code) == LogMessage(hd, "error", NoLine, code)

send_response_only(hd, code) ==
    IF hd.version # V09
    THEN [hd EXCEPT !.hbuf = Append(@, StatusLine(code)), !.status = code]
    ELSE [hd EXCEPT !.status = code]

send_header(hd, name, value) ==
    IF hd.version # V09 THEN [hd EXCEPT !.hbuf = Append(@, Header(name, value))]
    ELSE hd

\* BaseHTTPRequestHandler.end_headers with flush_headers
base_end_headers(hd) ==
    IF hd.version # V09
    THEN [hd EXCEPT !.wire = @ \o hd.hbuf \o <<BlankLine>>, !.hbuf = <<>>]
    ELSE hd

\* end_headers that adds the header and never calls super().end_headers()
end_headers_NoSuper(hd) == send_header(hd, "Cache-Control", NoCache)

\* MyHTTPRequestHandler.end_headers
end_headers(hd) ==
    base_end_headers(send_header(hd, "Cache-Control", NoCache))

EndHeaders(hd) ==
    IF hd.cls = "MyHTTPRequestHandler" THEN end_headers(hd)
    ELSE base_end_headers(hd)

send_response(hd, code) ==
    send_header(
        send_header(send_response_only(log_request(hd, code), code),
                    "Server", "SimpleHTTP"),
        "Date", "now")

WriteBody(hd, what) == [hd EXCEPT !.wire = Append(@, Body(what))]

HasErrorBody(code) == code >= 200 /\ code \notin {204, 205, 304}

send_error(hd, code) ==
    LET h1 == send_header(send_response(log_error(hd, code), code),
                          "Connection", "close")
        h2 == IF HasErrorBody(code)
              THEN send_header(send_header(h1, "Content-Type", "text/html"),
                               "Content-Length", "len")
              ELSE h1
        h3 == EndHeaders(h2)
    IN  IF hd.command # "HEAD" /\ HasErrorBody(code) THEN WriteBody(h3, "error")
        ELSE h3

\* posixpath.normpath on the components of an absolute path: "." is dropped,
\* ".." removes the component before it, or is dropped at the root
RECURSIVE NormFrom(_, _)
NormFrom(segs, acc) ==
    IF segs = <<>> THEN acc
    ELSE LET w == Head(segs)
         IN  IF w = "." \/ w = "" THEN NormFrom(Tail(segs), acc)
             ELSE IF w = ".."
                  THEN NormFrom(Tail(segs),
                                IF acc = <<>> THEN acc
                                ELSE SubSeq(acc, 1, Len(acc) - 1))
                  ELSE NormFrom(Tail(segs), Append(acc, w))

normpath(segs) == NormFrom(segs, <<>>)

\* SimpleHTTPRequestHandler.translate_path: the components below
\* self.directory, "." and ".." ignored, the trailing slash kept
translate_path(hd, target) ==
    [directory |-> hd.directory,
     segs |-> SelectSeq(normpath(target.segs), LAMBDA w : w \notin {".", ".."}),
     slash |-> target.slash]

isdir(path) == Lookup(path.directory, path.segs) \in {"dir", "nolist"}

isfile(path) ==
    ~path.slash /\ Lookup(path.directory, path.segs) \in {"file", "noperm"}

Join(path, name) == [path EXCEPT !.segs = Append(@, name), !.slash = FALSE]

\* SimpleHTTPRequestHandler.list_directory
list_directory(hd, path) ==
    IF Lookup(path.directory, path.segs) = "nolist"
    THEN [hd |-> send_error(hd, 404), f |-> "none"]
    ELSE [hd |-> EndHeaders(send_header(send_header(send_response(hd, 200),
                     "Content-type", "text/html"), "Content-Length", "len")),
          f |-> "listing"]

\* SimpleHTTPRequestHandler.send_head: the handler after the headers, and the
\* file object to copy ("none" when there is no body to send)
send_head(hd, r) ==
    LET path == translate_path(hd, r.line.target)
        index == Join(path, "index.html")
        found == isdir(path) /\ isfile(index)
        file == IF found THEN index ELSE path
    IN  IF isdir(path) /\ ~r.line.target.slash
        THEN [hd |-> EndHeaders(send_header(send_header(send_response(hd, 301),
                         "Location", "url/"), "Content-Length", "0")),
              f |-> "none"]
        ELSE IF isdir(path) /\ ~found
        THEN list_directory(hd, path)
        ELSE IF file.slash
        THEN [hd |-> send_error(hd, 404), f |-> "none"]
        ELSE IF Lookup(file.directory, file.segs) # "file"
        THEN [hd |-> send_error(hd, 404), f |-> "none"]
        ELSE IF r.ims
        THEN [hd |-> EndHeaders(send_response(hd, 304)), f |-> "none"]
        ELSE [hd |-> EndHeaders(send_header(send_header(send_header(
                         send_response(hd, 200), "Content-type", "guess"),
                         "Content-Length", "len"), "Last-Modified", "mtime")),
              f |-> "file"]

\* SimpleHTTPRequestHandler.do_GET: copyfile raises when the client has gone
do_GET(hd, r) ==
    LET sh == send_head(hd, r)
    IN  IF sh.f = "none" THEN sh.hd
        ELSE IF r.abort THEN [sh.hd EXCEPT !.raised = TRUE]
        ELSE WriteBody(sh.hd, sh.f)

\* SimpleHTTPRequestHandler.do_HEAD
do_HEAD(hd, r) == send_head(hd, r).hd

\* version.startswith('HTTP/') and two numeric components
ValidVersion(v) == v.prefix = "HTTP/" /\ v.major >= 0 /\ v.minor >= 0

\* BaseHTTPRequestHandler.parse_request: the handler, and whether it succeeded
parse_request(hd, r) ==
    LET h1 == [hd EXCEPT !.command = "", !.version = V09, !.reqline = r.line]
        v == r.line.version
        h2 == IF v # NoVersion THEN [h1 EXCEPT !.version = v] ELSE h1
    IN  IF r.wire = "blank" THEN [hd |-> h1, ok |-> FALSE]
        ELSE IF v # NoVersion /\ ~ValidVersion(v)
        THEN [hd |-> send_error(h1, 400), ok |-> FALSE]
        ELSE IF v # NoVersion /\ v.major >= 2
        THEN [hd |-> send_error(h1, 505), ok |-> FALSE]
        ELSE IF v = NoVersion /\ r.line.method # "GET"
        THEN [hd |-> send_error(h2, 400), ok |-> FALSE]
        ELSE [hd |-> [h2 EXCEPT !.command = r.line.method], ok |-> TRUE]

\* BaseHTTPRequestHandler.handle_one_request up to the method lookup: the
\* handler, and whether a do_<command> call follows
ReadLine(hd, r) ==
    CASE r.wire = "reset" -> [hd |-> [hd EXCEPT !.raised = TRUE], ok |-> FALSE]
      [] r.wire = "toolong" ->
            [hd |-> send_error([hd EXCEPT !.reqline = NoLine,
                                          !.version = NoVersion,
                                          !.command = ""], 414),
             ok |-> FALSE]
      [] r.wire = "eof" -> [hd |-> hd, ok |-> FALSE]
      [] OTHER -> parse_request(hd, r)

\* the rest of handle_one_request: getattr(self, 'do_' + command)()
CallMethod(hd, r) ==
    CASE hd.command = "GET" -> do_GET(hd, r)
      [] hd.command = "HEAD" -> do_HEAD(hd, r)
      [] OTHER -> send_error(hd, 501)

\* the whole of handle(): one request per connection (protocol HTTP/1.0)
Handle(hd, r) ==
    LET rl == ReadLine(hd, r)
    IN  IF rl.ok THEN CallMethod(rl.hd, r) ELSE rl.hd

(***************************************************************************)
(* The main program                                                        *)
(***************************************************************************)
Out(line, host) == [line |-> line, host |-> host, port |-> PORT]

ServingFromLine == Out("Serving from: <cwd>", "")
ErrorLine == Out("ERROR: dist folder not found. Run 'npm run build' first.", "")
RunningLine == Out(" Server running at: http://<host>:<port>/", "localhost")
NetworkLine(host) == Out(" Network: http://<host>:<port>/", host)
StoppedLine == Out("Server stopped", "")

Init ==
    /\ pc = "check"
    /\ distState \in DistStates
    /\ portFree \in BOOLEAN
    /\ cwd = "invocation"
    /\ chdirs = 0
    /\ stdout = <<>>
    /\ ip = "unset"
    /\ probeSent = 0
    /\ probeFailed = FALSE
    /\ listeners = 0
    /\ binds = 0
    /\ exitCode = -1
    /\ ints = <<>>
    /\ backlog = <<>>
    /\ conns = 0
    /\ cur = NoConn
    /\ req = NoReq
    /\ h = NoHandler
    /\ failed = 0

\* the process ends: its sockets are closed with it
Terminate(code) ==
    /\ pc' = "exited"
    /\ exitCode' = code
    /\ listeners' = 0
    /\ backlog' = <<>>
    /\ cur' = NoConn
    /\ req' = NoReq
    /\ h' = NoHandler

\* os.path.exists('dist'): true of a directory and of any other entry
exists(state) == state # "absent"

\* line 23
DistCheck ==
    /\ pc = "check"
    /\ pc' = IF exists(distState) THEN "chdir" ELSE "print_error"
    /\ UNCHANGED <<distState, portFree, cwd, chdirs, stdout, ip, probeSent, probeFailed,
                   listeners, binds, exitCode, ints, backlog, conns, cur, req,
                   h, failed>>

\* line 24 left out: the program goes on without changing directory
Chdir_Skipped ==
    /\ pc = "chdir"
    /\ pc' = "print_serving"
    /\ UNCHANGED <<distState, portFree, cwd, chdirs, stdout, ip, probeSent,
                   probeFailed, listeners, binds, exitCode, ints, backlog,
                   conns, cur, req, h, failed>>

\* line 24: os.chdir raises NotADirectoryError on an entry that is no
\* directory; nothing catches it, the interpreter exits with status 1
Chdir ==
    /\ pc = "chdir"
    /\ IF distState = "dir"
       THEN /\ cwd' = "dist"
            /\ chdirs' = chdirs + 1
            /\ pc' = "print_serving"
            /\ UNCHANGED <<listeners, exitCode, backlog, cur, req, h>>
       ELSE /\ Terminate(1)
            /\ UNCHANGED <<cwd, chdirs>>
    /\ UNCHANGED <<distState, portFree, stdout, ip, probeSent, probeFailed, binds, ints,
                   conns, failed>>

\* line 25
PrintServing ==
    /\ pc = "print_serving"
    /\ stdout' = Append(stdout, ServingFromLine)
    /\ pc' = "banner"
    /\ UNCHANGED <<distState, portFree, cwd, chdirs, ip, probeSent, probeFailed, listeners,
                   binds, exitCode, ints, backlog, conns, cur, req, h, failed>>

\* line 27
PrintError ==
    /\ pc = "print_error"
    /\ stdout' = Append(stdout, ErrorLine)
    /\ pc' = "exit1"
    /\ UNCHANGED <<distState, portFree, cwd, chdirs, ip, probeSent, probeFailed, listeners,
                   binds, exitCode, ints, backlog, conns, cur, req, h, failed>>

\* line 28 with sys.exit(0)
Exit1_Zero ==
    /\ pc = "exit1"
    /\ Terminate(0)
    /\ UNCHANGED <<distState, portFree, cwd, chdirs, stdout, ip, probeSent,
                   probeFailed, binds, ints, conns, failed>>

\* line 28
Exit1 ==
    /\ pc = "exit1"
    /\ Terminate(1)
    /\ UNCHANGED <<distState, portFree, cwd, chdirs, stdout, ip, probeSent, probeFailed,
                   binds, ints, conns, failed>>

\* lines 44-47, and the call of get_ip of line 48 entering its try block
PrintBanner ==
    /\ pc = "banner"
    /\ stdout' = Append(stdout, RunningLine)
    /\ pc' = "probe_socket"
    /\ UNCHANGED <<distState, portFree, cwd, chdirs, ip, probeSent, probeFailed, listeners,
                   binds, exitCode, ints, backlog, conns, cur, req, h, failed>>

\* the step of get_ip after `step`, "return" after the last one
NextProbeStep(step) ==
    CASE step = "probe_socket" -> "probe_connect"
      [] step = "probe_connect" -> "probe_getsockname"
      [] step = "probe_getsockname" -> "probe_close"
      [] step = "probe_close" -> "return"

\* an except clause that covers the connect call alone
ExceptCatches_ConnectOnly(step, exception) == step = "probe_connect"

\* the except clause of get_ip (line 19): a bare except, which catches every
\* exception raised at any step of the try block
ExceptCatches(step, exception) == step \in ProbePcs

\* lines 14-20: one step of get_ip, which succeeds or raises OSError
GetIpStep ==
    /\ pc \in ProbePcs
    /\ \E ok \in BOOLEAN :
          /\ probeFailed' = (probeFailed \/ ~ok)
          /\ IF ok
             THEN /\ ip' = IF NextProbeStep(pc) = "return" THEN LanIp ELSE ip
                  /\ pc' = IF NextProbeStep(pc) = "return" THEN "network"
                           ELSE NextProbeStep(pc)
                  /\ UNCHANGED <<listeners, exitCode, backlog, cur, req, h>>
             ELSE IF ExceptCatches(pc, "OSError")
                  THEN /\ ip' = "localhost"
                       /\ pc' = "network"
                       /\ UNCHANGED <<listeners, exitCode, backlog, cur, req, h>>
                  ELSE /\ Terminate(1)
                       /\ UNCHANGED ip
    /\ UNCHANGED <<distState, portFree, cwd, chdirs, stdout, probeSent, binds,
                   ints, conns, failed>>

\* lines 48-51
PrintNetwork ==
    /\ pc = "network"
    /\ stdout' = Append(stdout, NetworkLine(ip))
    /\ pc' = "bind"
    /\ UNCHANGED <<distState, portFree, cwd, chdirs, ip, probeSent, probeFailed, listeners,
                   binds, exitCode, ints, backlog, conns, cur, req, h, failed>>

\* line 53: socketserver.TCPServer(("", PORT), Handler) binds and listens, or
\* raises OSError when the port is taken; nothing catches it
Bind ==
    /\ pc = "bind"
    /\ IF portFree
       THEN /\ listeners' = listeners + 1
            /\ binds' = binds + 1
            /\ pc' = "entered"
            /\ UNCHANGED <<exitCode, backlog, cur, req, h>>
       ELSE /\ Terminate(1)
            /\ UNCHANGED binds
    /\ UNCHANGED <<distState, portFree, cwd, chdirs, stdout, ip, probeSent, probeFailed,
                   ints, conns, failed>>

\* lines 54-55: the try block is entered and serve_forever starts
EnterServe ==
    /\ pc = "entered"
    /\ pc' = "serving"
    /\ UNCHANGED <<distState, portFree, cwd, chdirs, stdout, ip, probeSent, probeFailed,
                   listeners, binds, exitCode, ints, backlog, conns, cur, req,
                   h, failed>>

(***************************************************************************)
(* serve_forever: socketserver.TCPServer, one connection at a time         *)
(***************************************************************************)
Open(c) == cur.client = c \/ \E i \in 1..Len(backlog) : backlog[i].client = c

\* a client connects to PORT: the kernel queues the connection.  A silent
\* client never sends anything on it and never closes it.
Connect ==
    /\ listeners > 0
    /\ conns < MaxConns
    /\ \E c \in Clients, silent \in BOOLEAN :
          /\ ~Open(c)
          /\ backlog' = Append(backlog, [client |-> c, silent |-> silent])
    /\ conns' = conns + 1
    /\ UNCHANGED <<pc, distState, portFree, cwd, chdirs, stdout, ip, probeSent, probeFailed,
                   listeners, binds, exitCode, ints, cur, req, h, failed>>

\* _handle_request_noblock: get_request (accept) and the construction of the
\* handler, whose directory is os.getcwd()
Accept ==
    /\ pc = "serving"
    /\ backlog # <<>>
    /\ cur' = Head(backlog)
    /\ backlog' = Tail(backlog)
    /\ h' = NewHandler("MyHTTPRequestHandler", cwd)
    /\ req' = NoReq
    /\ pc' = "reading"
    /\ UNCHANGED <<distState, portFree, cwd, chdirs, stdout, ip, probeSent, probeFailed,
                   listeners, binds, exitCode, ints, conns, failed>>

\* handle_one_request: rfile.readline blocks until the client sends a line
\* or closes (the handler has no timeout), then the request is parsed
ReadRequest ==
    /\ pc = "reading"
    /\ ~cur.silent
    /\ \E r \in Requests :
          /\ req' = r
          /\ h' = ReadLine(h, r).hd
          /\ pc' = IF ReadLine(h, r).ok THEN "dispatch" ELSE "finish"
    /\ UNCHANGED <<distState, portFree, cwd, chdirs, stdout, ip, probeSent, probeFailed,
                   listeners, binds, exitCode, ints, backlog, conns, cur,
                   failed>>

\* handle_one_request: the do_<command> method
Dispatch ==
    /\ pc = "dispatch"
    /\ h' = CallMethod(h, req)
    /\ pc' = "finish"
    /\ UNCHANGED <<distState, portFree, cwd, chdirs, stdout, ip, probeSent, probeFailed,
                   listeners, binds, exitCode, ints, backlog, conns, cur, req,
                   failed>>

\* the request failed: an error response, or an exception
Failed(hd) == hd.raised \/ hd.status >= 400

\* an exception of the handler that leaves serve_forever: nothing catches
\* it, the interpreter exits with status 1
FinishRequest_Propagates ==
    /\ pc = "finish"
    /\ failed' = IF Failed(h) THEN failed + 1 ELSE failed
    /\ IF h.raised
       THEN Terminate(1)
       ELSE /\ cur' = NoConn
            /\ req' = NoReq
            /\ h' = NoHandler
            /\ pc' = "serving"
            /\ UNCHANGED <<listeners, exitCode, backlog>>
    /\ UNCHANGED <<distState, portFree, cwd, chdirs, stdout, ip, probeSent,
                   probeFailed, binds, ints, conns>>

\* process_request: shutdown_request, after handle_error (a traceback on
\* stderr) when the handler raised an Exception
FinishRequest ==
    /\ pc = "finish"
    /\ failed' = IF Failed(h) THEN failed + 1 ELSE failed
    /\ cur' = NoConn
    /\ req' = NoReq
    /\ h' = NoHandler
    /\ pc' = "serving"
    /\ UNCHANGED <<distState, portFree, cwd, chdirs, stdout, ip, probeSent, probeFailed,
                   listeners, binds, exitCode, ints, backlog, conns>>

\* a try block that covers the wait for connections alone
KeyboardInterruptCaught_WaitOnly(position) == position = "serving"

\* the except KeyboardInterrupt clause of line 56 covers the try block of
\* lines 54-55: serve_forever and everything it calls
KeyboardInterruptCaught(position) == position \in ServePcs

\* SIGINT: Python raises KeyboardInterrupt in the main program where it is.
\* get_ip's bare except swallows it; the except clause of line 56 catches it
\* (the connection in progress is shut down on the way); anywhere else the
\* interpreter ends by SIGINT (status 130), leaving the with block if inside.
Interrupt ==
    /\ pc # "exited"
    /\ Len(ints) < MaxInterrupts
    /\ ints' = Append(ints, pc)
    /\ IF pc \in ProbePcs /\ ExceptCatches(pc, "KeyboardInterrupt")
       THEN /\ ip' = "localhost"
            /\ pc' = "network"
            /\ UNCHANGED <<listeners, exitCode, backlog, cur, req, h>>
       ELSE IF KeyboardInterruptCaught(pc)
            THEN /\ pc' = "stopped"
                 /\ cur' = NoConn
                 /\ req' = NoReq
                 /\ h' = NoHandler
                 /\ UNCHANGED <<ip, listeners, exitCode, backlog>>
            ELSE /\ Terminate(130)
                 /\ UNCHANGED ip
    /\ UNCHANGED <<distState, portFree, cwd, chdirs, stdout, probeSent, probeFailed, binds,
                   conns, failed>>

\* line 57
PrintStopped ==
    /\ pc = "stopped"
    /\ stdout' = Append(stdout, StoppedLine)
    /\ pc' = "exit0"
    /\ UNCHANGED <<distState, portFree, cwd, chdirs, ip, probeSent, probeFailed, listeners,
                   binds, exitCode, ints, backlog, conns, cur, req, h, failed>>

\* line 58: sys.exit(0) leaves the with block, which closes the server socket
Exit0 ==
    /\ pc = "exit0"
    /\ Terminate(0)
    /\ UNCHANGED <<distState, portFree, cwd, chdirs, stdout, ip, probeSent, probeFailed,
                   binds, ints, conns, failed>>

\* the steps the program takes by itself
Program ==
    \/ DistCheck
    \/ Chdir
    \/ PrintServing
    \/ PrintError
    \/ Exit1
    \/ PrintBanner
    \/ GetIpStep
    \/ PrintNetwork
    \/ Bind
    \/ EnterServe
    \/ Accept
    \/ ReadRequest
    \/ Dispatch
    \/ FinishRequest
    \/ PrintStopped
    \/ Exit0

Next ==
    \/ DistCheck
    \/ Chdir
    \/ PrintServing
    \/ PrintError
    \/ Exit1
    \/ PrintBanner
    \/ GetIpStep
    \/ PrintNetwork
    \/ Bind
    \/ EnterServe
    \/ Connect
    \/ Accept
    \/ ReadRequest
    \/ Dispatch
    \/ FinishRequest
    \/ Interrupt
    \/ PrintStopped
    \/ Exit0

Spec == Init /\ [][Next]_vars

\* a sequential process takes its next step unless it is blocked
FairSpec == Init /\ [][Next]_vars /\ WF_vars(Program)

(***************************************************************************)
(* Properties                                                              *)
(***************************************************************************)
Range(seq) == { seq[i] : i \in DOMAIN seq }

Printed(line) == line \in Range(stdout)

\* interrupts that arrived outside get_ip's try block
LandedInts == SelectSeq(ints, LAMBDA p : p \notin ProbePcs)

\* exactly one interrupt since serve_forever started, and it arrived there
SingleInterrupt == Len(LandedInts) = 1 /\ LandedInts[1] \in ServePcs

\* the process was ended by an uncaught KeyboardInterrupt
Killed ==
    /\ ints # <<>>
    /\ ints[Len(ints)] \notin ProbePcs \cup ServePcs

\* C1 (as claimed): when dist is absent or is not a directory, the run (left
\* alone by signals) ends with the diagnostic printed and exit code 1, and the
\* listener is never bound.
C1_Orig ==
    (distState # "dir" /\ ints = <<>>)
        => /\ binds = 0
           /\ pc = "exited" => (exitCode = 1 /\ Printed(ErrorLine))

CacheControls(wire) ==
    SelectSeq(wire, LAMBDA x : x.kind = "header" /\ x.name = "Cache-Control")

WithoutCacheControl(wire) ==
    SelectSeq(wire, LAMBDA x : ~(x.kind = "header" /\ x.name = "Cache-Control"))

\* what the base handler class writes for the same request
BaseWire(r, directory) ==
    Handle(NewHandler("SimpleHTTPRequestHandler", directory), r).wire

\* a response, or part of one, went to the client
Responded == pc = "finish" /\ h.wire # <<>>

\* C2 (as claimed): every response the server sends carries the Cache-Control
\* header exactly once, and every header of the base handler besides.
C2_Orig ==
    Responded
        => /\ CacheControls(h.wire) = <<Header("Cache-Control", NoCache)>>
           /\ WithoutCacheControl(h.wire) = BaseWire(req, h.directory)

\* C2 (amended): a response to a request whose version is not HTTP/0.9
\* carries Cache-Control: no-store, no-cache, must-revalidate exactly once,
\* as the last header, next to every header the base handler sends; a
\* response under HTTP/0.9 (a request line with no version, or one whose
\* version is refused) has no status line and no header at all, as with the
\* base handler.
C2_Thm ==
    Responded
        => /\ WithoutCacheControl(h.wire) = BaseWire(req, h.directory)
           /\ h.version # V09
                => /\ CacheControls(h.wire) = <<Header("Cache-Control", NoCache)>>
                   /\ \E i \in 1..(Len(h.wire) - 1) :
                         /\ h.wire[i] = Header("Cache-Control", NoCache)
                         /\ h.wire[i + 1] = BlankLine
           /\ h.version = V09
                => \A i \in DOMAIN h.wire : h.wire[i].kind = "body"

C2_Witness ==
    /\ Responded
    /\ h.status = 404
    /\ h.version = V11
    /\ Len(CacheControls(h.wire)) = 1

AccessLines(logs) == SelectSeq(logs, LAMBDA l : l.fmt = "request")

\* the request line as the handler records it: empty for an over-long one
Recorded(r) == IF r.wire = "toolong" THEN NoLine ELSE r.line

\* C3 (as claimed): every handled request, succeeding or failing, produces
\* exactly one log line, with the timestamp, the request line and the status.
C3_Orig ==
    (pc = "finish" /\ h.status # 0)
        => /\ Len(h.logs) = 1
           /\ h.logs[1].stamped
           /\ h.logs[1].reqline = Recorded(req)
           /\ h.logs[1].code = h.status

\* C3 (amended): every request that gets a response produces exactly one
\* access line, with the timestamp, the request line as recorded and the
\* status; a response made by send_error (status 400 and above) is preceded
\* by one more timestamped line, "code N, message M", so that such a request
\* produces exactly two log lines and any other exactly one; a connection
\* that gets no response produces none.
C3_Thm ==
    pc = "finish"
        => /\ h.status = 0 => h.logs = <<>>
           /\ h.status # 0
                => /\ Len(AccessLines(h.logs)) = 1
                   /\ AccessLines(h.logs)[1] = h.logs[Len(h.logs)]
                   /\ h.logs[Len(h.logs)].stamped
                   /\ h.logs[Len(h.logs)].reqline = Recorded(req)
                   /\ h.logs[Len(h.logs)].code = h.status
                   /\ Len(h.logs) = IF h.status >= 400 THEN 2 ELSE 1
                   /\ h.status >= 400
                        => /\ h.logs[1].fmt = "error"
                           /\ h.logs[1].stamped
                           /\ h.logs[1].code = h.status

C3_Witness ==
    /\ pc = "finish"
    /\ h.status = 404
    /\ Len(h.logs) = 2

\* C4: once serve_forever runs, a single interrupt leads to 'Server stopped'
\* printed, the listening socket closed and exit code 0, and from the
\* interrupt on no connection is accepted or handled, also when it arrives
\* while a request is being handled.
C4_Thm ==
    /\ [](SingleInterrupt
            => /\ pc \in {"stopped", "exit0", "exited"}
               /\ cur = NoConn
               /\ pc = "exited"
                    => /\ exitCode = 0
                       /\ listeners = 0
                       /\ Printed(StoppedLine))
    /\ [](SingleInterrupt => <>(pc = "exited" \/ ~SingleInterrupt))

C4_Witness ==
    /\ SingleInterrupt
    /\ LandedInts[1] = "dispatch"
    /\ pc = "exited"
    /\ exitCode = 0
    /\ Printed(StoppedLine)

\* targets that name nothing servable: not found, outside the root, a file
\* that may not be read, a directory that may not be listed
FailingTargets ==
    { Target(<<"nope">>, FALSE), Target(<<"..", "outside">>, FALSE),
      Target(<<"secret">>, FALSE), Target(<<"locked">>, TRUE) }

\* the request reached do_GET or do_HEAD with a failing target
PathFailure ==
    /\ pc = "finish"
    /\ h.command \in {"GET", "HEAD"}
    /\ req.line.target \in FailingTargets

\* an error response went to the client: the status line of the error (none
\* under HTTP/0.9) and the headers, then the body unless the method is HEAD
ErrorResponse ==
    /\ h.status >= 400
    /\ h.wire # <<>>
    /\ h.version # V09 => h.wire[1] = StatusLine(h.status)
    /\ h.command # "HEAD" => h.wire[Len(h.wire)] = Body("error")

\* no failing request so far ended the process or cost it its listener
AliveAfterFailures ==
    (failed >= 1 /\ LandedInts = <<>>)
        => /\ pc \in ServePcs
           /\ exitCode = -1
           /\ listeners = 1

C6_Thm ==
    /\ probeFailed => ip = "localhost"
    /\ ip = LanIp => (~probeFailed /\ probeSent = 0)
    /\ ip \in {"unset", "localhost", LanIp}
    /\ \A i \in DOMAIN stdout :
          stdout[i].line = NetworkLine(ip).line => stdout[i] = NetworkLine(ip)
    /\ (probeFailed /\ pc \notin {"network", "exited"})
          => Printed(NetworkLine("localhost"))
    /\ (probeFailed /\ pc = "exited" /\ exitCode # 130)
          => /\ Printed(NetworkLine("localhost"))
             /\ binds = 1 \/ ~portFree

C6_Witness ==
    /\ probeFailed
    /\ Printed(NetworkLine("localhost"))
    /\ listeners = 1
    /\ pc = "serving"

\* C7 (as claimed): exit code 1 only when dist is missing at startup; every
\* other termination (an interrupt at any point of the run, a failure to bind
\* port 8000) is a normal shutdown with exit code 0.  Stated for the runs in
\* which dist is absent or is a directory.
C7_Orig ==
    (pc = "exited" /\ distState # "file")
        => exitCode = (IF distState = "absent" /\ ints = <<>> THEN 1 ELSE 0)

\* C7 (amended): the process exits with code 1 when dist is missing and also
\* when an exception ends the startup (os.chdir on a dist that is no
\* directory, port 8000 not bindable); it exits with code 0 exactly when an
\* interrupt arrived inside serve_forever and no later interrupt arrived
\* before the exit; an interrupt inside get_ip is swallowed and ends nothing;
\* an interrupt anywhere else ends the process by the uncaught
\* KeyboardInterrupt (status 130), not with exit code 0; a process that is
\* not interrupted and started serving never exits.
C7_Thm ==
    /\ pc = "exited"
          => /\ exitCode \in {0, 1, 130}
             /\ exitCode = 130 <=> Killed
             /\ exitCode = 0 <=> (~Killed /\ LandedInts # <<>>)
             /\ exitCode = 1
                  <=> (LandedInts = <<>> /\ (distState # "dir" \/ ~portFree))
             /\ (exitCode = 0) => (Printed(StoppedLine) /\ binds = 1)
             /\ (exitCode = 1 /\ distState = "absent") => Printed(ErrorLine)
    /\ pc # "exited" => exitCode = -1

C7_Witness ==
    /\ pc = "exited"
    /\ exitCode = 1
    /\ distState = "dir"
    /\ ~portFree
    /\ ints = <<>>

\* C8 (as claimed): once the startup check has passed exactly one listener is
\* bound to port 8000 until the process exits; in particular the listener is
\* bound whenever the 'Server running at' line has been printed.
C8_Orig ==
    /\ (chdirs = 1 /\ pc # "exited") => listeners = 1
    /\ (Printed(RunningLine) /\ pc # "exited") => listeners = 1

\* a request of client B is queued behind the connection being handled
BWaiting == \E i \in DOMAIN backlog : backlog[i] = [client |-> "B", silent |-> FALSE]

\* C9 (as claimed): the handling of an accepted connection always completes,
\* and a request of client B is eventually accepted and answered even when
\* client A connected first and never sends its request line.
C9_Orig ==
    /\ [](cur # NoConn => <>(cur = NoConn))
    /\ [](BWaiting => <>((cur.client = "B" /\ pc = "finish") \/ LandedInts # <<>>))

\* C10: the working directory changes at most once, at startup, to dist, and
\* only when the check of dist passed; no later step changes it, and every
\* request is resolved against dist.
C10_Thm ==
    /\ chdirs <= 1
    /\ chdirs = 1 => (exists(distState) /\ cwd = "dist")
    /\ chdirs = 0 => cwd = "invocation"
    /\ pc \in {"check", "chdir", "print_error", "exit1"} => chdirs = 0
    /\ pc \notin {"check", "chdir", "print_error", "exit1", "exited"} => chdirs = 1
    /\ h # NoHandler => h.directory = "dist"

C10_Witness ==
    /\ chdirs = 1
    /\ failed >= 1
    /\ pc = "finish"
    /\ h.directory = "dist"
    /\ h.status = 200

====
